---- MODULE Spec2Model ----
(***************************************************************************)
(* Model of base64_p.py: reconstruction of an image from base64 strips.    *)
(*                                                                         *)
(* A text is a sequence of characters.  The ten-character data-URL marker  *)
(* `data:image' is carried as the single character MARKER, so that         *)
(* str.startswith('data:image') is "the first character is MARKER" and     *)
(* 'data:image' in s is "MARKER occurs in s".                              *)
(***************************************************************************)
EXTENDS Integers, Sequences, FiniteSets, TLC

LB == "["
RB == "]"
COMMA == ","
QUOTE == "\""
SP == " "
NL == "\n"
MARKER == "data:image"

\* Characters removed by str.strip() that occur in the modelled alphabet.
Whitespace == {SP, NL}

\* ------------------------------------------------------------------------
\* Bounds
\* ------------------------------------------------------------------------
MaxLen == 4
MaxStrips == 3
MaxRuns == 2

\* ------------------------------------------------------------------------
\* str primitives used by the program
\* ------------------------------------------------------------------------
RECURSIVE LStrip(_)
LStrip(s) ==
    IF s # <<>> /\ Head(s) \in Whitespace THEN LStrip(Tail(s)) ELSE s

RECURSIVE RStrip(_)
RStrip(s) ==
    IF s # <<>> /\ s[Len(s)] \in Whitespace
    THEN RStrip(SubSeq(s, 1, Len(s) - 1))
    ELSE s

\* str.strip()
Strip(s) == RStrip(LStrip(s))

\* str.startswith(c) / str.endswith(c) for a one-character (or marker) c
StartsWith(s, c) == s # <<>> /\ s[1] = c
EndsWith(s, c) == s # <<>> /\ s[Len(s)] = c

\* c in s
Contains(s, c) == \E p \in 1..Len(s) : s[p] = c

\* str.split(sep): the list of segments between separators, in order;
\* always Count(sep) + 1 segments.
RECURSIVE SplitAcc(_, _, _, _)
SplitAcc(s, sep, cur, acc) ==
    IF s = <<>> THEN Append(acc, cur)
    ELSE IF Head(s) = sep
         THEN SplitAcc(Tail(s), sep, <<>>, Append(acc, cur))
         ELSE SplitAcc(Tail(s), sep, Append(cur, Head(s)), acc)

Split(s, sep) == SplitAcc(s, sep, <<>>, <<>>)

\* ------------------------------------------------------------------------
\* detect_file_format
\* ------------------------------------------------------------------------
\* variant: the text is classified without being trimmed first
detect_file_format_nostrip(content) ==
    IF StartsWith(content, LB) /\ EndsWith(content, RB) THEN "json"
    ELSE IF Contains(content, MARKER) \/ Len(Split(content, NL)) > 1
         THEN "lines"
    ELSE "unknown"

detect_file_format(content) ==
    LET c == Strip(content) IN
    IF StartsWith(c, LB) /\ EndsWith(c, RB) THEN "json"
    ELSE IF Contains(c, MARKER) \/ Len(Split(c, NL)) > 1 THEN "lines"
    ELSE "unknown"

\* ------------------------------------------------------------------------
\* json.loads, restricted to the values the alphabet can spell: arrays and
\* string literals.  A value is [kind, text]; kind "str" carries the text
\* of a string, kind "list" stands for a nested array (not a str).
\* ------------------------------------------------------------------------
StrVal(t) == [kind |-> "str", text |-> t]
ListVal == [kind |-> "list", text |-> <<>>]
JsonFail == [ok |-> FALSE, val |-> ListVal, items |-> <<>>, next |-> 0]

RECURSIVE SkipWs(_, _)
SkipWs(s, p) ==
    IF p <= Len(s) /\ s[p] \in Whitespace THEN SkipWs(s, p + 1) ELSE p

\* position of the quote closing a string opened before p, 0 if the string
\* is unterminated or holds a raw control character
RECURSIVE CloseQuote(_, _)
CloseQuote(s, p) ==
    IF p > Len(s) THEN 0
    ELSE IF s[p] = QUOTE THEN p
    ELSE IF s[p] = NL THEN 0
    ELSE CloseQuote(s, p + 1)

RECURSIVE ParseValue(_, _)
RECURSIVE ParseElems(_, _, _)
ParseValue(s, p) ==
    IF p > Len(s) THEN JsonFail
    ELSE IF s[p] = QUOTE THEN
        LET e == CloseQuote(s, p + 1) IN
        IF e = 0 THEN JsonFail
        ELSE [ok |-> TRUE, val |-> StrVal(SubSeq(s, p + 1, e - 1)),
              items |-> <<>>, next |-> e + 1]
    ELSE IF s[p] = LB THEN
        LET k == SkipWs(s, p + 1) IN
        IF k <= Len(s) /\ s[k] = RB
        THEN [ok |-> TRUE, val |-> ListVal, items |-> <<>>, next |-> k + 1]
        ELSE ParseElems(s, k, <<>>)
    ELSE JsonFail

ParseElems(s, p, acc) ==
    LET v == ParseValue(s, p) IN
    IF ~v.ok THEN JsonFail
    ELSE LET k == SkipWs(s, v.next) IN
         IF k > Len(s) THEN JsonFail
         ELSE IF s[k] = COMMA
              THEN ParseElems(s, SkipWs(s, k + 1), Append(acc, v.val))
         ELSE IF s[k] = RB
              THEN [ok |-> TRUE, val |-> ListVal,
                    items |-> Append(acc, v.val), next |-> k + 1]
         ELSE JsonFail

\* json.loads(content): ok is FALSE where the call raises
json_loads(content) ==
    LET v == ParseValue(content, SkipWs(content, 1)) IN
    IF v.ok /\ SkipWs(content, v.next) > Len(content) THEN v ELSE JsonFail

\* ------------------------------------------------------------------------
\* load_strips_from_file
\* ------------------------------------------------------------------------
RECURSIVE StripLines_keepblank(_)
\* variant: the filter tests the line, not the trimmed line
StripLines_keepblank(lines) ==
    IF lines = <<>> THEN <<>>
    ELSE IF Head(lines) # <<>>
         THEN <<StrVal(Strip(Head(lines)))>>
                  \o StripLines_keepblank(Tail(lines))
         ELSE StripLines_keepblank(Tail(lines))

RECURSIVE StripLines(_)
\* [line.strip() for line in lines if line.strip()]
StripLines(lines) ==
    IF lines = <<>> THEN <<>>
    ELSE LET t == Strip(Head(lines)) IN
         IF t # <<>> THEN <<StrVal(t)>> \o StripLines(Tail(lines))
         ELSE StripLines(Tail(lines))

\* variant: a text of unknown format is loaded as no strips
load_strips_from_file_unknown_empty(readable, content) ==
    IF ~readable THEN <<>>
    ELSE IF detect_file_format(content) = "json" THEN
        LET v == json_loads(content) IN
        IF v.ok THEN v.items ELSE <<>>
    ELSE IF detect_file_format(content) = "unknown" THEN <<>>
    ELSE StripLines(Split(content, NL))

\* readable = FALSE: open()/read() raises, the handler returns []
load_strips_from_file(readable, content) ==
    IF ~readable THEN <<>>
    ELSE IF detect_file_format(content) = "json" THEN
        LET v == json_loads(content) IN
        IF v.ok THEN v.items ELSE <<>>
    ELSE StripLines(Split(content, NL))

\* ------------------------------------------------------------------------
\* Decoding one strip (combine_image_strips, body of the try block)
\* ------------------------------------------------------------------------
\* An opened image: the bytes it was opened from, and its size.
Img(d, w, h) == [data |-> d, width |-> w, height |-> h]
NoImg == Img(<<>>, 0, 0)

\* Characters of the base64 alphabet; base64.b64decode (validate=False)
\* discards every other character before decoding.  The letters of the
\* marker belong to the alphabet, so MARKER is kept.
B64Alphabet == {"a", "b", MARKER}

RECURSIVE B64Filter(_)
B64Filter(s) ==
    IF s = <<>> THEN <<>>
    ELSE IF Head(s) \in B64Alphabet THEN <<Head(s)>> \o B64Filter(Tail(s))
    ELSE B64Filter(Tail(s))

\* base64.b64decode + Image.open: the payloads that are images, and their
\* sizes; every other payload raises.
ImageOpen(payload) ==
    LET d == B64Filter(payload) IN
    IF d = <<"a">> THEN [ok |-> TRUE, img |-> Img(d, 2, 1)]
    ELSE IF d = <<"b">> THEN [ok |-> TRUE, img |-> Img(d, 1, 2)]
    ELSE IF d = <<"a", "b">> THEN [ok |-> TRUE, img |-> Img(d, 3, 1)]
    ELSE [ok |-> FALSE, img |-> NoImg]

\* The text handed to base64.b64decode for a strip; ok is FALSE where
\* producing it raises (a non-str element: AttributeError; a marker with
\* no comma: IndexError).
DecoderInput(strip) ==
    IF strip.kind # "str" THEN [ok |-> FALSE, text |-> <<>>]
    ELSE IF StartsWith(strip.text, MARKER) THEN
        LET parts == Split(strip.text, COMMA) IN
        IF Len(parts) < 2 THEN [ok |-> FALSE, text |-> <<>>]
        ELSE [ok |-> TRUE, text |-> parts[2]]
    ELSE [ok |-> TRUE, text |-> strip.text]

\* The try block for one strip: ok is FALSE where any statement raises.
Decode(strip) ==
    LET d == DecoderInput(strip) IN
    IF d.ok THEN ImageOpen(d.text) ELSE [ok |-> FALSE, img |-> NoImg]

\* variant: the except clause leaves the loop (`break')
AfterFailure_break(idx, n) == n + 1

\* `continue' in the except clause: the loop goes on with the next strip
AfterFailure(idx, n) == idx + 1

\* ------------------------------------------------------------------------
\* Sizing and compositing
\* ------------------------------------------------------------------------
RECURSIVE TotalHeight(_)
TotalHeight(imgs) ==
    IF imgs = <<>> THEN 0 ELSE Head(imgs).height + TotalHeight(Tail(imgs))

RECURSIVE MaxWidth(_)
\* max() over a non-empty sequence
MaxWidth(imgs) ==
    IF Len(imgs) = 1 THEN Head(imgs).width
    ELSE LET m == MaxWidth(Tail(imgs)) IN
         IF Head(imgs).width > m THEN Head(imgs).width ELSE m

\* variant: the offset advances by the width of the strip
NextY_width(y, img) == y + img.width

\* current_y += img.height
NextY(y, img) == y + img.height

\* A raster: its size and what was pasted on it, in paste order.
Raster(w, h, ps) == [width |-> w, height |-> h, pastes |-> ps]
\* the value None, also the content of a path with no file
None == Raster(0, 0, <<>>)
\* a file left at an output path by an earlier program
OldFile == Raster(1, 1, <<>>)

\* `if not base64_strips'
NoStrips(strips) == strips = <<>>
\* variant: the check for an empty accumulator is missing
NoImages_never(imgs) == FALSE

\* `if not images'
NoImages(imgs) == imgs = <<>>
\* `if result' in process_directory
Truthy(r) == r # None

\* variant: the canvas is returned without being saved
SavedFs_nowrite(fs, path, img) == fs

\* combined_image.save(output_path)
SavedFs(fs, path, img) == [fs EXCEPT ![path] = img]

\* ------------------------------------------------------------------------
\* Files
\* ------------------------------------------------------------------------
\* an input file name; os.path.splitext(os.path.basename(f))[0] is its stem
FileName(stem, ext) == [stem |-> stem, ext |-> ext]
\* os.path.join(output_dir, f"{prefix}{base_name}.jpg")
OutPath(prefix, stem) == [prefix |-> prefix, stem |-> stem]

\* glob (fnmatch) for the patterns used
Matches(name, pat) ==
    \/ pat = "*"
    \/ pat = "*.txt" /\ name.ext = "txt"
    \/ pat = "*.json" /\ name.ext = "json"

\* glob.glob: the matching names in some order
Orders(S) ==
    {q \in [1..Cardinality(S) -> S] :
        \A m, n \in 1..Cardinality(S) : m # n => q[m] # q[n]}

\* ------------------------------------------------------------------------
\* Inputs
\* ------------------------------------------------------------------------
TextAlphabet == {LB, RB, COMMA, QUOTE, SP, NL, MARKER, "a"}
ShortTexts == UNION {[1..n -> TextAlphabet] : n \in 0..MaxLen}

StripPool ==
    {<<"a">>, <<"b">>, <<"a", "b">>, <<"b", "a">>, <<MARKER, COMMA, "b">>}

RECURSIVE JoinLines(_)
JoinLines(ls) ==
    IF Len(ls) = 1 THEN ls[1] ELSE ls[1] \o <<NL>> \o JoinLines(Tail(ls))

StripFiles ==
    {JoinLines(ls) : ls \in UNION {[1..n -> StripPool] : n \in 1..MaxStrips}}

SingleContents == ShortTexts \cup StripFiles

TheFile == FileName("x", "txt")
DirFiles == {FileName("x", "txt"), FileName("x", "dat"), FileName("y", "txt")}
DirContents ==
    {<<"a">>,
     <<"b", NL, MARKER, NL, "a">>,
     <<LB, QUOTE, "a", "b", QUOTE, RB>>,
     <<LB, "a", RB>>,
     <<MARKER>>}
Patterns == {"*.txt", "*", "*.json"}

VARIABLES
    dir,            \* input directory: file name -> text
    unreadable,     \* input files whose open()/read() raises
    outfs,          \* output directory: path -> raster (None: no file)
    unwritable,     \* output paths whose save() raises
    pattern,        \* file_pattern
    run,            \* number of the current program run
    pc,             \* position in the program
    files,          \* process_directory: the glob result
    fidx,           \* process_directory: index of the loop over files
    processed_count,
    failed_count,
    input_file,     \* combine_image_strips: arguments
    output_path,
    format_type,    \* load_strips_from_file: local
    base64_strips,  \* combine_image_strips: locals
    i,
    images,
    canvas,
    current_y,
    k,
    result,         \* value returned by combine_image_strips
    attempted,      \* history: strip indexes whose try block was entered
    fs_before,      \* history: outfs when combine_image_strips was called
    returns,        \* history: how each call of this run ended
    prev_out        \* history: outfs at the end of the previous run

vars ==
    <<dir, unreadable, outfs, unwritable, pattern, run, pc, files, fidx,
      processed_count, failed_count, input_file, output_path, format_type,
      base64_strips, i, images, canvas, current_y, k, result, attempted, fs_before,
      returns, prev_out>>

envVars == <<dir, unreadable, unwritable, pattern, run, prev_out>>
dirVars == <<files, fidx, processed_count, failed_count>>
argVars == <<input_file, output_path>>

\* ------------------------------------------------------------------------
\* combine_image_strips
\* ------------------------------------------------------------------------
FreshLocals ==
    /\ format_type = ""
    /\ base64_strips = <<>>
    /\ i = 1
    /\ images = <<>>
    /\ canvas = None
    /\ current_y = 0
    /\ k = 1
    /\ result = None
    /\ attempted = <<>>

\* history record of the end of a call
Ended(how) == [file |-> input_file, how |-> how]

\* line 50: base64_strips = load_strips_from_file(input_file)
\* lines 52-54: nothing loaded, return None
LoadStrips ==
    /\ pc = "call"
    /\ LET strips == load_strips_from_file(input_file \notin unreadable,
                                           dir[input_file]) IN
       /\ base64_strips' = strips
       /\ format_type' = IF input_file \in unreadable THEN ""
                         ELSE detect_file_format(dir[input_file])
       /\ IF NoStrips(strips)
          THEN /\ pc' = "return"
               /\ returns' = Append(returns, Ended("absent"))
          ELSE /\ pc' = "loop"
               /\ returns' = returns
    /\ result' = None
    /\ i' = 1
    /\ images' = <<>>
    /\ fs_before' = outfs
    /\ UNCHANGED <<envVars, dirVars, argVars, outfs, canvas, current_y, k,
                   attempted>>

\* lines 62-76: one iteration of the loop over the strips
DecodeStrip ==
    /\ pc = "loop"
    /\ i <= Len(base64_strips)
    /\ LET d == Decode(base64_strips[i]) IN
       IF d.ok
       THEN /\ images' = Append(images, d.img)
            /\ i' = i + 1
       ELSE /\ images' = images
            /\ i' = AfterFailure(i, Len(base64_strips))
    /\ attempted' = Append(attempted, i)
    /\ UNCHANGED <<envVars, dirVars, argVars, outfs, pc, format_type,
                   base64_strips, canvas, current_y, k, result, fs_before,
                   returns>>

\* lines 78-80: no strip decoded, return None
ReturnNoImages ==
    /\ pc = "loop"
    /\ i > Len(base64_strips)
    /\ NoImages(images)
    /\ result' = None
    /\ pc' = "return"
    /\ returns' = Append(returns, Ended("absent"))
    /\ UNCHANGED <<envVars, dirVars, argVars, outfs, format_type,
                   base64_strips, i, images, canvas, current_y, k, attempted,
                   fs_before>>

\* lines 83-90: size and allocate the canvas; max() of nothing raises
NewCanvas ==
    /\ pc = "loop"
    /\ i > Len(base64_strips)
    /\ ~NoImages(images)
    /\ IF images = <<>>
       THEN /\ pc' = "raised"
            /\ returns' = Append(returns, Ended("raised"))
            /\ UNCHANGED <<canvas, current_y, k>>
       ELSE /\ canvas' = Raster(MaxWidth(images), TotalHeight(images), <<>>)
            /\ current_y' = 0
            /\ k' = 1
            /\ pc' = "paste"
            /\ returns' = returns
    /\ UNCHANGED <<envVars, dirVars, argVars, outfs, format_type,
                   base64_strips, i, images, result, attempted, fs_before>>

\* lines 91-93: one iteration of the loop over the images
Paste ==
    /\ pc = "paste"
    /\ k <= Len(images)
    /\ canvas' = [canvas EXCEPT !.pastes =
                     Append(@, [img |-> images[k], x |-> 0, y |-> current_y])]
    /\ current_y' = NextY(current_y, images[k])
    /\ k' = k + 1
    /\ UNCHANGED <<envVars, dirVars, argVars, outfs, pc, format_type,
                   base64_strips, i, images, result, attempted, fs_before,
                   returns>>

\* lines 96-101: save the canvas and return it; save() may raise
SaveAndReturn ==
    /\ pc = "paste"
    /\ k > Len(images)
    /\ IF output_path \in unwritable
       THEN /\ pc' = "raised"
            /\ returns' = Append(returns, Ended("raised"))
            /\ UNCHANGED <<outfs, result>>
       ELSE /\ outfs' = SavedFs(outfs, output_path, canvas)
            /\ result' = canvas
            /\ pc' = "return"
            /\ returns' = Append(returns, Ended("composite"))
    /\ UNCHANGED <<envVars, dirVars, argVars, format_type, base64_strips, i,
                   images, canvas, current_y, k, attempted, fs_before>>

combine_image_strips ==
    \/ LoadStrips
    \/ DecodeStrip
    \/ ReturnNoImages
    \/ NewCanvas
    \/ Paste
    \/ SaveAndReturn

\* ------------------------------------------------------------------------
\* process_single_file
\* ------------------------------------------------------------------------
InitSingle ==
    /\ \E c \in SingleContents : dir = [n \in {TheFile} |-> c]
    /\ unreadable \in {{}, {TheFile}}
    /\ unreadable # {} => dir[TheFile] = <<>>
    /\ outfs \in [{OutPath("combined_", "x")} -> {None, OldFile}]
    /\ unwritable \in SUBSET {OutPath("combined_", "x")}
    /\ pattern = "*.txt"
    /\ run = 1
    /\ pc = "main"
    /\ files = <<>>
    /\ fidx = 1
    /\ processed_count = 0
    /\ failed_count = 0
    /\ input_file = TheFile
    /\ output_path = OutPath("combined_", "x")
    /\ FreshLocals
    /\ fs_before = outfs
    /\ returns = <<>>
    /\ prev_out = outfs

\* lines 161-166
process_single_file ==
    /\ pc = "main"
    /\ input_file' = TheFile
    /\ output_path' = OutPath("combined_", TheFile.stem)
    /\ pc' = "call"
    /\ UNCHANGED <<envVars, dirVars, outfs, format_type, base64_strips, i,
                   images, canvas, current_y, k, result, attempted,
                   fs_before, returns>>

NextSingle ==
    \/ process_single_file
    \/ combine_image_strips

SpecSingle == InitSingle /\ [][NextSingle]_vars

\* ------------------------------------------------------------------------
\* process_directory
\* ------------------------------------------------------------------------
DirOutPaths == {OutPath("", n.stem) : n \in DirFiles}

InitDir ==
    /\ dir \in [DirFiles -> DirContents]
    /\ unreadable = {}
    /\ outfs \in {[p \in DirOutPaths |-> None], [p \in DirOutPaths |-> OldFile]}
    /\ unwritable \in {{}, {OutPath("", "y")}}
    /\ pattern \in Patterns
    /\ run = 1
    /\ pc = "main"
    /\ files = <<>>
    /\ fidx = 1
    /\ processed_count = 0
    /\ failed_count = 0
    /\ input_file = TheFile
    /\ output_path = OutPath("", "x")
    /\ FreshLocals
    /\ fs_before = outfs
    /\ returns = <<>>
    /\ prev_out = outfs

\* variant: the except clause does not count the file
OnException_nocount(failed) == failed

\* the except clause of the loop over files: failed_count += 1
OnException(failed) == failed + 1

\* lines 114-130: glob the input directory; return if nothing matches
StartRun ==
    /\ pc = "main"
    /\ \E q \in Orders({n \in DOMAIN dir : Matches(n, pattern)}) :
        /\ files' = q
        /\ pc' = IF q = <<>> THEN "done" ELSE "files"
    /\ processed_count' = 0
    /\ failed_count' = 0
    /\ fidx' = 1
    /\ UNCHANGED <<envVars, argVars, outfs, format_type, base64_strips, i,
                   images, canvas, current_y, k, result, attempted,
                   fs_before, returns>>

\* lines 132-139: next file of the loop, call combine_image_strips
NextFile ==
    /\ pc = "files"
    /\ fidx <= Len(files)
    /\ input_file' = files[fidx]
    /\ output_path' = OutPath("", files[fidx].stem)
    /\ pc' = "call"
    /\ format_type' = ""
    /\ base64_strips' = <<>>
    /\ i' = 1
    /\ images' = <<>>
    /\ canvas' = None
    /\ current_y' = 0
    /\ k' = 1
    /\ result' = None
    /\ attempted' = <<>>
    /\ UNCHANGED <<envVars, dirVars, outfs, fs_before, returns>>

\* lines 141-144: count the returned result
FileReturned ==
    /\ pc = "return"
    /\ IF Truthy(result)
       THEN /\ processed_count' = processed_count + 1
            /\ failed_count' = failed_count
       ELSE /\ failed_count' = failed_count + 1
            /\ processed_count' = processed_count
    /\ fidx' = fidx + 1
    /\ pc' = "files"
    /\ UNCHANGED <<envVars, argVars, files, outfs, format_type,
                   base64_strips, i, images, canvas, current_y, k, result,
                   attempted, fs_before, returns>>

\* lines 146-149: an exception escaped combine_image_strips
FileRaised ==
    /\ pc = "raised"
    /\ failed_count' = OnException(failed_count)
    /\ fidx' = fidx + 1
    /\ pc' = "files"
    /\ UNCHANGED <<envVars, argVars, files, processed_count, outfs,
                   format_type, base64_strips, i, images, canvas, current_y,
                   k, result, attempted, fs_before, returns>>

\* lines 151-155: the loop is over, print the totals
EndRun ==
    /\ pc = "files"
    /\ fidx > Len(files)
    /\ pc' = "done"
    /\ UNCHANGED <<envVars, dirVars, argVars, outfs, format_type,
                   base64_strips, i, images, canvas, current_y, k, result,
                   attempted, fs_before, returns>>

\* the program is started again on the same directories
Rerun ==
    /\ pc = "done"
    /\ run < MaxRuns
    /\ run' = run + 1
    /\ prev_out' = outfs
    /\ pc' = "main"
    /\ files' = <<>>
    /\ fidx' = 1
    /\ processed_count' = 0
    /\ failed_count' = 0
    /\ input_file' = TheFile
    /\ output_path' = OutPath("", "x")
    /\ format_type' = ""
    /\ base64_strips' = <<>>
    /\ i' = 1
    /\ images' = <<>>
    /\ canvas' = None
    /\ current_y' = 0
    /\ k' = 1
    /\ result' = None
    /\ attempted' = <<>>
    /\ fs_before' = outfs
    /\ returns' = <<>>
    /\ UNCHANGED <<dir, unreadable, unwritable, pattern, outfs>>

NextDir ==
    \/ StartRun
    \/ NextFile
    \/ combine_image_strips
    \/ FileReturned
    \/ FileRaised
    \/ EndRun
    \/ Rerun

SpecDir == InitDir /\ [][NextDir]_vars

\* ========================================================================
\* Properties
\* ========================================================================
\* the text of the file being combined
Content == dir[input_file]
\* combine_image_strips has been entered and has loaded the strips
Loaded == pc \in {"loop", "paste", "return", "raised"}
\* the loop over the strips has ended
LoopOver == pc \in {"paste", "return", "raised"}
\* combine_image_strips has ended
Ended_ == pc \in {"return", "raised"}
ReturnedAbsent == pc = "return" /\ result = None
ReturnedComposite == pc = "return" /\ result # None

NonWs(t) == {p \in 1..Len(t) : t[p] \notin Whitespace}
MinOf(S) == CHOOSE m \in S : \A n \in S : m <= n
MaxOf(S) == CHOOSE m \in S : \A n \in S : n <= m
\* the text without its leading and trailing whitespace, by positions
Core(t) == IF NonWs(t) = {} THEN <<>>
           ELSE SubSeq(t, MinOf(NonWs(t)), MaxOf(NonWs(t)))
\* the m-th smallest element of a set of numbers
Nth(S, m) == CHOOSE e \in S : Cardinality({d \in S : d <= e}) = m

\* ------------------------------------------------------------------------
\* C1  Once every decoded strip is pasted, the canvas is as wide as the
\*     widest decoded strip and as high as all of them together; the n-th
\*     decoded strip is pasted at x = 0 and at the y where the strip before
\*     it ends (the first at 0); the row bands of the strips are pairwise
\*     disjoint and cover exactly the rows 0 .. height-1.  A call that
\*     returns with decoded strips returns this canvas.
\* ------------------------------------------------------------------------
Band(n) ==
    {r \in 0..canvas.height :
        canvas.pastes[n].y <= r /\ r < canvas.pastes[n].y + images[n].height}

AllPasted == pc \in {"paste", "return", "raised"} /\ images # <<>>
             /\ k > Len(images)

C1_CanvasGeometry ==
    /\ AllPasted =>
        /\ \A n \in 1..Len(images) : images[n].width <= canvas.width
        /\ \E n \in 1..Len(images) : images[n].width = canvas.width
        /\ Len(canvas.pastes) = Len(images)
        /\ \A n \in 1..Len(images) :
            /\ canvas.pastes[n].img = images[n]
            /\ canvas.pastes[n].x = 0
            /\ canvas.pastes[n].y =
                 IF n = 1 THEN 0
                 ELSE canvas.pastes[n - 1].y + images[n - 1].height
        /\ \A m, n \in 1..Len(images) : m # n => Band(m) \cap Band(n) = {}
        /\ UNION {Band(n) : n \in 1..Len(images)} = 0..(canvas.height - 1)
    /\ (pc = "return" /\ images # <<>>) => (AllPasted /\ result = canvas)

C1_Witness ==
    /\ pc = "return"
    /\ Len(images) = 3
    /\ images[1].height = 1 /\ images[2].height = 2
    /\ canvas.width = 3 /\ canvas.height = 4
    /\ canvas.pastes[3].y = 3

\* ------------------------------------------------------------------------
\* C2  A strip that fails to decode does not end the loop: the strips are
\*     attempted one by one in batch order up to the loop index, and the
\*     accumulator holds exactly the images of the strips attempted so far
\*     that decode, in batch order; when the loop is over every strip of
\*     the batch was attempted.
\* ------------------------------------------------------------------------
OkUpTo(n) == {j \in 1..n : Decode(base64_strips[j]).ok}

C2_FailureDoesNotStopLoop ==
    Loaded =>
        /\ i \in 1..(Len(base64_strips) + 1)
        /\ attempted = [j \in 1..(i - 1) |-> j]
        /\ Len(images) = Cardinality(OkUpTo(i - 1))
        /\ \A m \in 1..Len(images) :
            images[m] = Decode(base64_strips[Nth(OkUpTo(i - 1), m)]).img
        /\ LoopOver => i = Len(base64_strips) + 1

C2_Witness ==
    /\ pc = "return"
    /\ Len(base64_strips) = 3
    /\ ~Decode(base64_strips[2]).ok
    /\ Len(images) = 2
    /\ attempted = <<1, 2, 3>>
    /\ canvas.height = images[1].height + images[2].height

\* ------------------------------------------------------------------------
\* C3  A call that ends on a batch none of whose strips decodes (the empty
\*     batch included) ends by returning None; it does not raise.
\* ------------------------------------------------------------------------
NoneDecodes ==
    \A j \in 1..Len(base64_strips) : ~Decode(base64_strips[j]).ok

C3_NothingDecodedReturnsNone ==
    (Ended_ /\ NoneDecodes) => ReturnedAbsent

C3_Witness ==
    /\ ReturnedAbsent
    /\ Len(base64_strips) >= 2
    /\ NoneDecodes

\* ------------------------------------------------------------------------
\* C4  (as claimed) Every strip of the batch that starts with the marker
\*     and holds a comma decodes as the same strip with the prefix removed
\*     (everything after its first comma) does: what the decoder is handed
\*     is that whole remainder.
\* ------------------------------------------------------------------------
FirstComma(t) == MinOf({p \in 1..Len(t) : t[p] = COMMA})
AfterFirstComma(t) == SubSeq(t, FirstComma(t) + 1, Len(t))

C4_PrefixRemovedWhole ==
    Loaded =>
        \A j \in 1..Len(base64_strips) :
            LET st == base64_strips[j] IN
            (st.kind = "str" /\ StartsWith(st.text, MARKER)
                /\ Contains(st.text, COMMA)) =>
                /\ DecoderInput(st).ok
                /\ ImageOpen(DecoderInput(st).text) =
                     ImageOpen(AfterFirstComma(st.text))

\* ------------------------------------------------------------------------
\* C5  (as claimed) A text with more than one line that is not a valid
\*     JSON array is classified `lines'; a valid JSON array is classified
\*     `json'.
\* ------------------------------------------------------------------------
Detected == Loaded /\ input_file \notin unreadable
\* a newline stands between two characters that are not whitespace
MultiLine(t) ==
    \E p, q, r \in 1..Len(t) :
        p < q /\ q < r /\ t[q] = NL /\ p \in NonWs(t) /\ r \in NonWs(t)
\* json.loads accepts the text and the value is an array
ValidJsonArray(t) == json_loads(t).ok /\ json_loads(t).val.kind = "list"
\* the first character that is not whitespace is [ and the last is ]
Bracketed(t) ==
    NonWs(t) # {} /\ t[MinOf(NonWs(t))] = LB /\ t[MaxOf(NonWs(t))] = RB

C5_AsClaimed ==
    Detected =>
        /\ (MultiLine(Content) /\ ~ValidJsonArray(Content))
              => format_type = "lines"
        /\ ValidJsonArray(Content) => format_type = "json"

\* C5  (amended) A text that, trimmed, has more than one line and does not
\*     both start with [ and end with ] is classified `lines'; a valid
\*     JSON array is classified `json'.
C5_Amended ==
    Detected =>
        /\ (MultiLine(Content) /\ ~Bracketed(Content))
              => format_type = "lines"
        /\ ValidJsonArray(Content) => format_type = "json"

C5_Witness ==
    /\ Detected
    /\ MultiLine(Content)
    /\ Content[1] = LB
    /\ ~Bracketed(Content)
    /\ format_type = "lines"

\* ------------------------------------------------------------------------
\* C6  (as claimed) A text classified `unknown' is a batch of no strips:
\*     nothing is loaded from it and the call returns None.
\* ------------------------------------------------------------------------
C6_AsClaimed ==
    (Detected /\ format_type = "unknown") =>
        /\ base64_strips = <<>>
        /\ Ended_ => ReturnedAbsent

\* C6  (amended) A text classified `unknown' is loaded as line-delimited
\*     text: nothing is loaded only from a blank text, otherwise the batch
\*     is the one strip holding the trimmed text; the call returns None
\*     exactly when the text is blank or that strip does not decode.
C6_Amended ==
    (Detected /\ format_type = "unknown") =>
        /\ base64_strips =
             IF NonWs(Content) = {} THEN <<>> ELSE <<StrVal(Core(Content))>>
        /\ Ended_ =>
             (ReturnedAbsent <=>
                 (NonWs(Content) = {} \/ ~Decode(StrVal(Core(Content))).ok))

C6_Witness ==
    /\ Detected
    /\ format_type = "unknown"
    /\ Len(base64_strips) = 1
    /\ ReturnedComposite

\* ------------------------------------------------------------------------
\* C7  In a run of process_directory the calls of combine_image_strips
\*     that have ended are for the first files of the glob result, one call
\*     per file, in that order, whatever their outcome; the two counters
\*     count them: processed_count the calls that returned a composite,
\*     failed_count the calls that returned None or raised; when the loop
\*     is over every matched file has had its call, so the counters add up
\*     to the number of matched files.
\* ------------------------------------------------------------------------
HowMany(S) == Cardinality({j \in 1..Len(returns) : returns[j].how \in S})
\* the counters are up to date: no ended call is waiting to be counted
Counted == pc \in {"files", "done"}

C7_EveryFileCountedOnce ==
    /\ Len(returns) <= Len(files)
    /\ \A j \in 1..Len(returns) : returns[j].file = files[j]
    /\ Counted =>
        /\ processed_count = HowMany({"composite"})
        /\ failed_count = HowMany({"absent", "raised"})
        /\ processed_count + failed_count = Len(returns)
        /\ fidx = Len(returns) + 1
    /\ pc = "done" => processed_count + failed_count = Len(files)

C7_Witness ==
    /\ pc = "done"
    /\ Len(files) = 3
    /\ returns[1].how = "raised"
    /\ returns[2].how = "absent"
    /\ returns[3].how = "composite"
    /\ processed_count = 1
    /\ failed_count = 2

\* ------------------------------------------------------------------------
\* C8  (as claimed) A run of process_directory over the unchanged input
\*     directory leaves the output directory as the run before it left it,
\*     whichever order glob returns the files in.
\* ------------------------------------------------------------------------
C8_SecondRunSameOutput ==
    (pc = "done" /\ run > 1) => outfs = prev_out

\* ------------------------------------------------------------------------
\* C9  For a text that is not classified `json' the loaded batch is
\*     exactly the trimmed lines that are not blank, in the order of the
\*     lines: a line is the text between two neighbouring line ends (or an
\*     end of the text), it is blank if all its characters are whitespace,
\*     and trimmed it runs from its first to its last character that is
\*     not whitespace.
\* ------------------------------------------------------------------------
\* positions that end a line, with the two ends of the text
LineEnds(t) == {0, Len(t) + 1} \cup {p \in 1..Len(t) : t[p] = NL}
\* the line that starts after position b
LineAfter(t, b) ==
    {p \in 1..Len(t) : b < p /\ \A e \in LineEnds(t) : e > b => p < e}
\* starts of the lines that are not blank
NonBlankStarts(t) ==
    {b \in LineEnds(t) \ {Len(t) + 1} : LineAfter(t, b) \cap NonWs(t) # {}}
TrimmedLine(t, b) ==
    SubSeq(t, MinOf(LineAfter(t, b) \cap NonWs(t)),
              MaxOf(LineAfter(t, b) \cap NonWs(t)))

C9_LinesKeptInOrder ==
    (Detected /\ format_type # "json") =>
        /\ Len(base64_strips) = Cardinality(NonBlankStarts(Content))
        /\ \A m \in 1..Len(base64_strips) :
            base64_strips[m] =
                StrVal(TrimmedLine(Content, Nth(NonBlankStarts(Content), m)))

C9_Witness ==
    /\ Detected
    /\ format_type = "lines"
    /\ Len(base64_strips) = 2
    /\ base64_strips[1] # base64_strips[2]
    /\ Cardinality(LineEnds(Content)) >= 4

\* ------------------------------------------------------------------------
\* C10 The output directory changes only by a call that returns a
\*     composite, and then only at output_path, which holds the returned
\*     composite; while a call runs, and after it returned None (file
\*     unreadable, JSON malformed, batch empty, nothing decoded), the
\*     output directory is as it was when the call began: no file is
\*     created, overwritten or removed.
\* ------------------------------------------------------------------------
C10_WritesIffComposite ==
    IF ReturnedComposite
    THEN /\ result = canvas
         /\ outfs = [fs_before EXCEPT ![output_path] = result]
         /\ outfs # fs_before
    ELSE outfs = fs_before

C10_Witness ==
    /\ ReturnedAbsent
    /\ base64_strips # <<>>
    /\ outfs[output_path] = OldFile

====
